---- MODULE Spec2Model ----
(***************************************************************************)
(* A model of src/src/utl.ts: the outbound composers (validateEmail,       *)
(* encodeEmailHeader, createEmailMessage, createEmailWithNodemailer) and    *)
(* the inbound sanitizer makeEmailBodyLLMSafe with its helpers.             *)
(*                                                                         *)
(* A JavaScript string is a sequence of characters, each character a        *)
(* one-character TLA+ string; the one non-ASCII character of the model is   *)
(* the token EAcute.  An optional value (undefined when absent) is a        *)
(* sequence of length 0 or 1: None or Some(v).                              *)
(***************************************************************************)
EXTENDS Integers, Sequences, FiniteSets, TLC

VARIABLES pc, fn, args, ret, err, locals, boundarySuffix, files, sendMailCalls

vars == <<pc, fn, args, ret, err, locals, boundarySuffix, files, sendMailCalls>>

(***************************************************************************)
(* Sequences and optional values                                           *)
(***************************************************************************)
None == <<>>
Some(v) == <<v>>

Min(S) == CHOOSE x \in S : \A y \in S : x <= y
Max(S) == CHOOSE x \in S : \A y \in S : x >= y

Range(s) == {s[i] : i \in 1..Len(s)}

\* All sequences over A of length at most n.
SeqsUpTo(A, n) == UNION {[1..k -> A] : k \in 0..n}

\* The sequence with the elements f[1], ..., f[n] of a function on 1..n.
AsSeq(f) == SubSeq(f, 1, Len(f))

\* The concatenation of the sequences ss[lo], ..., ss[hi], and of all of ss.
RECURSIVE FlattenRange(_, _, _)
FlattenRange(ss, lo, hi) ==
    IF lo > hi THEN <<>>
    ELSE IF lo = hi THEN ss[lo]
    ELSE FlattenRange(ss, lo, (lo + hi) \div 2) \o FlattenRange(ss, (lo + hi) \div 2 + 1, hi)
Flatten(ss) == FlattenRange(ss, 1, Len(ss))

\* Array.prototype.join: the elements separated by sep.
join(ss, sep) ==
    Flatten(AsSeq([i \in 1..Len(ss) |-> IF i = 1 THEN ss[i] ELSE sep \o ss[i]]))

\* String.prototype.slice(from, to) with 0 <= from, 0-based, to exclusive.
slice(s, from, to) == SubSeq(s, from + 1, IF to > Len(s) THEN Len(s) ELSE to)

StartsWith(s, p) == Len(s) >= Len(p) /\ SubSeq(s, 1, Len(p)) = p
EndsWith(s, p) == Len(s) >= Len(p) /\ SubSeq(s, Len(s) - Len(p) + 1, Len(s)) = p
\* p occurs in s at the 1-based position i.
OccursAt(s, p, i) == i + Len(p) - 1 <= Len(s) /\ \A j \in 1..Len(p) : s[i + j - 1] = p[j]

(***************************************************************************)
(* Characters                                                              *)
(***************************************************************************)
\* U+00E9, the model's non-ASCII character, and U+FFFD, the replacement
\* character of a failed UTF-8 decoding.
EAcute == "U+00E9"
Replacement == "U+FFFD"
\* U+0060, which a TLA+ string cannot hold.
GraveAccent == "U+0060"

\* The printable ASCII characters, code 32 first.
Printable ==
    <<" ","!","\"","#","$","%","&","'","(",")","*","+",",","-",".","/","0","1","2","3","4","5","6","7","8","9",":",";","<","=",">","?","@","A","B","C","D","E","F","G","H","I","J","K","L","M","N","O","P","Q","R","S","T","U","V","W","X","Y","Z","[","\\","]","^","_">>
    \o <<GraveAccent>> \o
    <<"a","b","c","d","e","f","g","h","i","j","k","l","m","n","o","p","q","r","s","t","u","v","w","x","y","z","{","|","}","~">>

codePoint ==
    [c \in Range(Printable) \cup {"\t", "\n", "\r", EAcute, Replacement} |->
        IF c = "\t" THEN 9
        ELSE IF c = "\n" THEN 10
        ELSE IF c = "\r" THEN 13
        ELSE IF c = EAcute THEN 233
        ELSE IF c = Replacement THEN 65533
        ELSE 31 + CHOOSE i \in 1..Len(Printable) : Printable[i] = c]

fromCodePoint(n) ==
    IF n = 9 THEN "\t"
    ELSE IF n = 10 THEN "\n"
    ELSE IF n = 13 THEN "\r"
    ELSE IF n = 233 THEN EAcute
    ELSE IF n >= 32 /\ n <= 126 THEN Printable[n - 31]
    ELSE Replacement

\* The regular expressions' \s and the characters String.prototype.trim
\* removes, among the characters of the model.
WhiteSpace == {" ", "\t", "\n", "\r"}
\* The line terminators, at which ^ and $ of a /m expression match and
\* which . does not match.
LineTerminators == {"\n", "\r"}

UpperCase == <<"A","B","C","D","E","F","G","H","I","J","K","L","M","N","O","P","Q","R","S","T","U","V","W","X","Y","Z">>
LowerCase == <<"a","b","c","d","e","f","g","h","i","j","k","l","m","n","o","p","q","r","s","t","u","v","w","x","y","z">>
\* The canonical form of a character under the /i flag.
foldCase ==
    [c \in DOMAIN codePoint |->
        IF c \in Range(UpperCase)
        THEN LowerCase[CHOOSE i \in 1..26 : UpperCase[i] = c]
        ELSE c]
fold(s) == AsSeq([i \in 1..Len(s) |-> foldCase[s[i]]])

\* String.prototype.trim.
trim(s) ==
    LET keep == {i \in 1..Len(s) : s[i] \notin WhiteSpace}
    IN  IF keep = {} THEN <<>> ELSE SubSeq(s, Min(keep), Max(keep))

(***************************************************************************)
(* Buffer: UTF-8 and base64                                                *)
(***************************************************************************)
\* Buffer.from(text): the UTF-8 bytes of a string.
utf8Bytes(c) ==
    LET n == codePoint[c]
    IN  IF n < 128 THEN <<n>>
        ELSE IF n < 2048 THEN <<192 + n \div 64, 128 + (n % 64)>>
        ELSE <<224 + n \div 4096, 128 + ((n \div 64) % 64), 128 + (n % 64)>>
utf8Encode(s) == Flatten(AsSeq([i \in 1..Len(s) |-> utf8Bytes(s[i])]))

\* buff.toString('utf8'): a byte below 128 is its character, a two-byte
\* lead with its continuation byte is one character, any other byte is
\* U+FFFD.  (A lead is no continuation, so whether a byte is the
\* continuation of the byte before it is decided by those two bytes.)
isLeadWithContinuation(b, i) ==
    i >= 1 /\ i < Len(b) /\ b[i] >= 194 /\ b[i] < 224 /\ b[i + 1] >= 128 /\ b[i + 1] < 192
utf8Decode(b) ==
    Flatten(AsSeq([i \in 1..Len(b) |->
        IF isLeadWithContinuation(b, i - 1) THEN <<>>
        ELSE IF b[i] < 128 THEN <<fromCodePoint(b[i])>>
        ELSE IF isLeadWithContinuation(b, i)
        THEN <<fromCodePoint((b[i] - 192) * 64 + (b[i + 1] - 128))>>
        ELSE <<Replacement>>]))

Base64Chars == <<"A","B","C","D","E","F","G","H","I","J","K","L","M","N","O","P","Q","R","S","T","U","V","W","X","Y","Z","a","b","c","d","e","f","g","h","i","j","k","l","m","n","o","p","q","r","s","t","u","v","w","x","y","z","0","1","2","3","4","5","6","7","8","9","+","/">>
base64Value == [c \in Range(Base64Chars) |-> (CHOOSE i \in 1..64 : Base64Chars[i] = c) - 1]

\* buffer.toString('base64'): the standard alphabet, each group of three
\* bytes as four characters, a last group of one or two padded with "=".
base64Group(b) ==
    IF Len(b) = 1
    THEN <<Base64Chars[b[1] \div 4 + 1], Base64Chars[(b[1] % 4) * 16 + 1], "=", "=">>
    ELSE IF Len(b) = 2
    THEN <<Base64Chars[b[1] \div 4 + 1],
           Base64Chars[(b[1] % 4) * 16 + b[2] \div 16 + 1],
           Base64Chars[(b[2] % 16) * 4 + 1], "=">>
    ELSE <<Base64Chars[b[1] \div 4 + 1],
           Base64Chars[(b[1] % 4) * 16 + b[2] \div 16 + 1],
           Base64Chars[(b[2] % 16) * 4 + b[3] \div 64 + 1],
           Base64Chars[(b[3] % 64) + 1]>>
toBase64(b) ==
    Flatten(AsSeq([g \in 1..((Len(b) + 2) \div 3) |->
        base64Group(SubSeq(b, 3 * g - 2, IF 3 * g > Len(b) THEN Len(b) ELSE 3 * g))]))

\* Buffer.from(data, 'base64'): the characters outside the alphabet are
\* skipped, the input ends at the first "=", four characters give three
\* bytes and a last group of two or three gives one or two.
sextetGroup(v) ==
    IF Len(v) < 2 THEN <<>>
    ELSE IF Len(v) = 2 THEN <<v[1] * 4 + v[2] \div 16>>
    ELSE IF Len(v) = 3
    THEN <<v[1] * 4 + v[2] \div 16, (v[2] % 16) * 16 + v[3] \div 4>>
    ELSE <<v[1] * 4 + v[2] \div 16, (v[2] % 16) * 16 + v[3] \div 4,
           (v[3] % 4) * 64 + v[4]>>
sextetsToBytes(v) ==
    Flatten(AsSeq([g \in 1..((Len(v) + 3) \div 4) |->
        sextetGroup(SubSeq(v, 4 * g - 3, IF 4 * g > Len(v) THEN Len(v) ELSE 4 * g))]))

fromBase64(data) ==
    LET pads  == {i \in 1..Len(data) : data[i] = "="}
        upTo  == IF pads = {} THEN data ELSE SubSeq(data, 1, Min(pads) - 1)
        known == SelectSeq(upTo, LAMBDA c : c \in DOMAIN base64Value)
    IN  sextetsToBytes(AsSeq([i \in 1..Len(known) |-> base64Value[known[i]]]))

\* String.prototype.replace(/c/g, d) for single characters c and d.
replaceChar(s, c, d) == AsSeq([i \in 1..Len(s) |-> IF s[i] = c THEN d ELSE s[i]])

(***************************************************************************)
(* encodeEmailHeader, validateEmail                                        *)
(***************************************************************************)
\* /[^\x00-\x7F]/.test(text)
hasNonAscii(text) == \E i \in 1..Len(text) : codePoint[text[i]] > 127

encodeEmailHeader(text) ==
    IF hasNonAscii(text)
    THEN <<"=","?","U","T","F","-","8","?","B","?">> \o toBase64(utf8Encode(text)) \o <<"?","=">>
    ELSE text

\* [^\s@]+ matches the whole of s.
isAtomRun(s) == s # <<>> /\ \A i \in 1..Len(s) : s[i] \notin WhiteSpace \cup {"@"}

\* A validator that would ask for no dot: /^[^\s@]+@[^\s@]+$/.
validateEmailNoTld(email) ==
    \E i \in 1..Len(email) :
        /\ email[i] = "@"
        /\ isAtomRun(SubSeq(email, 1, i - 1))
        /\ isAtomRun(SubSeq(email, i + 1, Len(email)))
\* /^[^\s@]+@[^\s@]+\.[^\s@]+$/.test(email)
validateEmail(email) ==
    \E i \in 1..Len(email) : \E j \in (i + 1)..Len(email) :
        /\ email[i] = "@"
        /\ email[j] = "."
        /\ isAtomRun(SubSeq(email, 1, i - 1))
        /\ isAtomRun(SubSeq(email, i + 1, j - 1))
        /\ isAtomRun(SubSeq(email, j + 1, Len(email)))

(***************************************************************************)
(* createEmailMessage                                                      *)
(***************************************************************************)
\* JavaScript truthiness of an optional string (undefined and '' are falsy)
\* and of an optional array (only undefined is falsy).
truthyString(o) == o # None /\ o[1] # <<>>
truthyArray(o) == o # None

CRLF == <<"\r", "\n">>
InvalidRecipient == <<"R","e","c","i","p","i","e","n","t"," ","e","m","a","i","l"," ","a","d","d","r","e","s","s"," ","i","s"," ","i","n","v","a","l","i","d",":"," ">>
FileDoesNotExist == <<"F","i","l","e"," ","d","o","e","s"," ","n","o","t"," ","e","x","i","s","t",":"," ">>

\* validatedArgs.mimeType || 'text/plain'
defaultedMimeType(validatedArgs) ==
    IF truthyString(validatedArgs.mimeType) THEN validatedArgs.mimeType[1] ELSE <<"t","e","x","t","/","p","l","a","i","n">>

\* The mimeType after the multipart/alternative decision.
chosenMimeType(validatedArgs) ==
    IF truthyString(validatedArgs.htmlBody) /\ defaultedMimeType(validatedArgs) # <<"t","e","x","t","/","p","l","a","i","n">>
    THEN <<"m","u","l","t","i","p","a","r","t","/","a","l","t","e","r","n","a","t","i","v","e">>
    ELSE defaultedMimeType(validatedArgs)

\* <<"-","-","-","-","=","_","N","e","x","t","P","a","r","t","_","$","{","M","a","t","h",".","r","a","n","d","o","m","(",")",".","t","o","S","t","r","i","n","g","(","3","6",")",".","s","u","b","s","t","r","i","n","g","(","2",")","}">>
boundaryOf(suffix) == <<"-","-","-","-","=","_","N","e","x","t","P","a","r","t","_">> \o suffix

\* A loop that would go on past a rejected address and throw at the last one.
lastInvalid(to) ==
    LET bad == {i \in 1..Len(to) : ~validateEmail(to[i])}
    IN  IF bad = {} THEN 0 ELSE Max(bad)
\* The index of the address at which to.forEach throws, 0 when it throws at none.
firstInvalid(to) ==
    LET bad == {i \in 1..Len(to) : ~validateEmail(to[i])}
    IN  IF bad = {} THEN 0 ELSE Min(bad)

\* The common headers, after .filter(Boolean) has dropped the empty lines.
commonHeaders(validatedArgs) ==
    SelectSeq(
        << <<"F","r","o","m",":"," ","m","e">>,
           <<"T","o",":"," ">> \o join(validatedArgs.to, <<","," ">>),
           IF truthyArray(validatedArgs.cc)
               THEN <<"C","c",":"," ">> \o join(validatedArgs.cc[1], <<","," ">>) ELSE <<>>,
           IF truthyArray(validatedArgs.bcc)
               THEN <<"B","c","c",":"," ">> \o join(validatedArgs.bcc[1], <<","," ">>) ELSE <<>>,
           <<"S","u","b","j","e","c","t",":"," ">> \o encodeEmailHeader(validatedArgs.subject),
           IF truthyString(validatedArgs.inReplyTo)
               THEN <<"I","n","-","R","e","p","l","y","-","T","o",":"," ">> \o validatedArgs.inReplyTo[1] ELSE <<>>,
           IF truthyString(validatedArgs.inReplyTo)
               THEN <<"R","e","f","e","r","e","n","c","e","s",":"," ">> \o validatedArgs.inReplyTo[1] ELSE <<>>,
           <<"M","I","M","E","-","V","e","r","s","i","o","n",":"," ","1",".","0">> >>,
        LAMBDA line : line # <<>>)

\* validatedArgs.htmlBody || validatedArgs.body
htmlBodyOrBody(validatedArgs) ==
    IF truthyString(validatedArgs.htmlBody) THEN validatedArgs.htmlBody[1] ELSE validatedArgs.body

\* emailParts when no address is rejected.
emailParts(validatedArgs, boundary) ==
    LET mimeType == chosenMimeType(validatedArgs)
    IN  commonHeaders(validatedArgs) \o
        (IF mimeType = <<"m","u","l","t","i","p","a","r","t","/","a","l","t","e","r","n","a","t","i","v","e">>
         THEN << <<"C","o","n","t","e","n","t","-","T","y","p","e",":"," ","m","u","l","t","i","p","a","r","t","/","a","l","t","e","r","n","a","t","i","v","e",";"," ","b","o","u","n","d","a","r","y","=","\"">> \o boundary \o <<"\"">>,
                 <<>>,
                 <<"-","-">> \o boundary,
                 <<"C","o","n","t","e","n","t","-","T","y","p","e",":"," ","t","e","x","t","/","p","l","a","i","n",";"," ","c","h","a","r","s","e","t","=","U","T","F","-","8">>,
                 <<"C","o","n","t","e","n","t","-","T","r","a","n","s","f","e","r","-","E","n","c","o","d","i","n","g",":"," ","7","b","i","t">>,
                 <<>>,
                 validatedArgs.body,
                 <<>>,
                 <<"-","-">> \o boundary,
                 <<"C","o","n","t","e","n","t","-","T","y","p","e",":"," ","t","e","x","t","/","h","t","m","l",";"," ","c","h","a","r","s","e","t","=","U","T","F","-","8">>,
                 <<"C","o","n","t","e","n","t","-","T","r","a","n","s","f","e","r","-","E","n","c","o","d","i","n","g",":"," ","7","b","i","t">>,
                 <<>>,
                 htmlBodyOrBody(validatedArgs),
                 <<>>,
                 <<"-","-">> \o boundary \o <<"-","-">> >>
         ELSE IF mimeType = <<"t","e","x","t","/","h","t","m","l">>
         THEN << <<"C","o","n","t","e","n","t","-","T","y","p","e",":"," ","t","e","x","t","/","h","t","m","l",";"," ","c","h","a","r","s","e","t","=","U","T","F","-","8">>,
                 <<"C","o","n","t","e","n","t","-","T","r","a","n","s","f","e","r","-","E","n","c","o","d","i","n","g",":"," ","7","b","i","t">>,
                 <<>>,
                 htmlBodyOrBody(validatedArgs) >>
         ELSE << <<"C","o","n","t","e","n","t","-","T","y","p","e",":"," ","t","e","x","t","/","p","l","a","i","n",";"," ","c","h","a","r","s","e","t","=","U","T","F","-","8">>,
                 <<"C","o","n","t","e","n","t","-","T","r","a","n","s","f","e","r","-","E","n","c","o","d","i","n","g",":"," ","7","b","i","t">>,
                 <<>>,
                 validatedArgs.body >>)

\* The outcome of createEmailMessage(validatedArgs) when Math.random gives
\* the boundary suffix: an error thrown, or the message returned.
createEmailMessage(validatedArgs, suffix) ==
    LET bad == firstInvalid(validatedArgs.to)
    IN  IF bad # 0
        THEN [threw |-> TRUE, error |-> InvalidRecipient \o validatedArgs.to[bad], value |-> <<>>]
        ELSE [threw |-> FALSE, error |-> <<>>,
              value |-> join(emailParts(validatedArgs, boundaryOf(suffix)), CRLF)]

(***************************************************************************)
(* createEmailWithNodemailer                                               *)
(***************************************************************************)
\* path.basename(filePath): what follows the last "/", trailing "/" dropped.
basename(filePath) ==
    LET ends  == {i \in 1..Len(filePath) : filePath[i] # "/"}
        last  == IF ends = {} THEN 0 ELSE Max(ends)
        seps  == {i \in 1..last : filePath[i] = "/"}
        first == IF seps = {} THEN 1 ELSE Max(seps) + 1
    IN  SubSeq(filePath, first, last)

\* The index of the attachment path at which fs.existsSync is false, the
\* paths taken in order; 0 when every path exists.
firstMissing(attachments, existing) ==
    LET missing == {i \in 1..Len(attachments) : attachments[i] \notin existing}
    IN  IF missing = {} THEN 0 ELSE Min(missing)

\* xs?.join(', ')
optionalJoin(xs) == IF xs = None THEN None ELSE Some(join(xs[1], <<","," ">>))

mailOptionsOf(validatedArgs) ==
    [from        |-> <<"m","e">>,
     to          |-> join(validatedArgs.to, <<","," ">>),
     cc          |-> optionalJoin(validatedArgs.cc),
     bcc         |-> optionalJoin(validatedArgs.bcc),
     subject     |-> validatedArgs.subject,
     text        |-> validatedArgs.body,
     html        |-> validatedArgs.htmlBody,
     attachments |-> AsSeq([i \in 1..Len(validatedArgs.attachments) |->
                         [filename |-> basename(validatedArgs.attachments[i]),
                          path     |-> validatedArgs.attachments[i]]]),
     inReplyTo   |-> validatedArgs.inReplyTo,
     references  |-> validatedArgs.inReplyTo]

\* A composer that would look for the attachments before it validates the
\* recipients.
attachmentsBeforeRecipients(validatedArgs, existing) ==
    LET bad     == firstInvalid(validatedArgs.to)
        missing == firstMissing(validatedArgs.attachments, existing)
    IN  IF missing # 0
        THEN [threw |-> TRUE, sendMail |-> 0, mailOptions |-> None,
              error |-> FileDoesNotExist \o validatedArgs.attachments[missing]]
        ELSE IF bad # 0
        THEN [threw |-> TRUE, sendMail |-> 0, mailOptions |-> None,
              error |-> InvalidRecipient \o validatedArgs.to[bad]]
        ELSE [threw |-> FALSE, sendMail |-> 1, error |-> <<>>,
              mailOptions |-> Some(mailOptionsOf(validatedArgs))]
\* createEmailWithNodemailer up to its await: an error thrown, or
\* transporter.sendMail invoked with the mail options.
createEmailWithNodemailer(validatedArgs, existing) ==
    LET bad     == firstInvalid(validatedArgs.to)
        missing == firstMissing(validatedArgs.attachments, existing)
    IN  IF bad # 0
        THEN [threw |-> TRUE, sendMail |-> 0, mailOptions |-> None,
              error |-> InvalidRecipient \o validatedArgs.to[bad]]
        ELSE IF missing # 0
        THEN [threw |-> TRUE, sendMail |-> 0, mailOptions |-> None,
              error |-> FileDoesNotExist \o validatedArgs.attachments[missing]]
        ELSE [threw |-> FALSE, sendMail |-> 1, error |-> <<>>,
              mailOptions |-> Some(mailOptionsOf(validatedArgs))]

(***************************************************************************)
(* makeEmailBodyLLMSafe                                                    *)
(***************************************************************************)
DefaultMaxChars == 6000
TruncationMarker == <<"\n","\n","[","t","r","u","n","c","a","t","e","d"," ","f","o","r"," ","m","o","d","e","l","]">>

\* A part of the tree the mail API delivers: mimeType is '' when the part
\* has none, data is None when the part has no body or the body no data,
\* parts is None when the part has no array of parts.
Part(mimeType, data, parts) == [mimeType |-> mimeType, data |-> data, parts |-> parts]
\* payload || {}
EmptyPart == Part(<<>>, None, None)

decodeBody(data) ==
    IF ~truthyString(data) THEN <<>>
    ELSE utf8Decode(fromBase64(replaceChar(replaceChar(data[1], "-", "+"), "_", "/")))

RECURSIVE extract(_)
extract(part) ==
    LET isText == part.mimeType = <<"t","e","x","t","/","p","l","a","i","n">> /\ truthyString(part.data)
        isHtml == ~isText /\ part.mimeType = <<"t","e","x","t","/","h","t","m","l">> /\ truthyString(part.data)
        children ==
            IF part.parts = None THEN <<>>
            ELSE AsSeq([i \in 1..Len(part.parts[1]) |-> extract(part.parts[1][i])])
    IN  [text |-> (IF isText THEN decodeBody(part.data) ELSE <<>>)
                  \o Flatten(AsSeq([i \in 1..Len(children) |-> children[i].text])),
         html |-> (IF isHtml THEN decodeBody(part.data) ELSE <<>>)
                  \o Flatten(AsSeq([i \in 1..Len(children) |-> children[i].html]))]

\* <open[\s\S]*?close : from open at i to the end of the first close after it.
elementEnd(f, i, open, close) ==
    IF ~OccursAt(f, open, i) THEN 0
    ELSE LET closes == {k \in (i + Len(open))..Len(f) : OccursAt(f, close, k)}
         IN  IF closes = {} THEN 0 ELSE Min(closes) + Len(close)
\* /<style[\s\S]*?<\/style>/gi
styleEnd(f, i) == elementEnd(f, i, <<"<","s","t","y","l","e">>, <<"<","/","s","t","y","l","e",">">>)
\* /<script[\s\S]*?<\/script>/gi
scriptEnd(f, i) == elementEnd(f, i, <<"<","s","c","r","i","p","t">>, <<"<","/","s","c","r","i","p","t",">">>)

\* /<\/(p|div|li|h[1-6]|br|tr)>/gi
ClosingTags ==
    {<<"<","/","p",">">>, <<"<","/","d","i","v",">">>, <<"<","/","l","i",">">>, <<"<","/","h","1",">">>, <<"<","/","h","2",">">>, <<"<","/","h","3",">">>, <<"<","/","h","4",">">>, <<"<","/","h","5",">">>, <<"<","/","h","6",">">>,
     <<"<","/","b","r",">">>, <<"<","/","t","r",">">>}
closingTagEnd(f, i) ==
    LET hit == {t \in ClosingTags : OccursAt(f, t, i)}
    IN  IF hit = {} THEN 0 ELSE i + Len(CHOOSE t \in hit : TRUE)
\* /<li>/gi
liEnd(f, i) == IF OccursAt(f, <<"<","l","i",">">>, i) THEN i + 4 ELSE 0
\* /<[^>]+>/g
tagEnd(f, i) ==
    IF f[i] # "<" THEN 0
    ELSE LET closes == {k \in (i + 1)..Len(f) : f[k] = ">"}
         IN  IF closes = {} \/ Min(closes) = i + 1 THEN 0 ELSE Min(closes) + 1
\* The position after the run of characters of S that starts at i.
runEnd(f, i, S) ==
    LET stops == {k \in i..Len(f) : f[k] \notin S}
    IN  IF stops = {} THEN Len(f) + 1 ELSE Min(stops)
\* /\r?\n\s*\r?\n\s*/g : a line break whose following run of white space
\* holds another line break; the match runs to the end of that run.
blankLinesEnd(f, i) ==
    LET first == IF f[i] = "\n" THEN i
                 ELSE IF f[i] = "\r" /\ i < Len(f) /\ f[i + 1] = "\n" THEN i + 1
                 ELSE 0
        end   == runEnd(f, first + 1, WhiteSpace)
    IN  IF first = 0 THEN 0
        ELSE IF \E k \in (first + 1)..(end - 1) : f[k] = "\n" THEN end ELSE 0
\* /[ \t]+/g
blanksEnd(f, i) == IF f[i] \in {" ", "\t"} THEN runEnd(f, i, {" ", "\t"}) ELSE 0

\* The position after the match of the expression re that starts at position
\* i of f, 0 when none does; f is the text the expression reads (the text
\* itself, or the text case-folded under /i).
matchEnd(re, f, i) ==
    CASE re = "style"      -> styleEnd(f, i)
      [] re = "script"     -> scriptEnd(f, i)
      [] re = "closingTag" -> closingTagEnd(f, i)
      [] re = "li"         -> liEnd(f, i)
      [] re = "tag"        -> tagEnd(f, i)
      [] re = "blankLines" -> blankLinesEnd(f, i)
      [] re = "blanks"     -> blanksEnd(f, i)

\* String.prototype.replace(re, rep) for a /g expression, none of which
\* matches the empty string.
replaceAll(re, s, f, rep) ==
    LET scan[i \in 1..(Len(s) + 1)] ==
            LET starts == {k \in i..Len(s) : matchEnd(re, f, k) > 0}
            IN  IF starts = {} THEN SubSeq(s, i, Len(s))
                ELSE SubSeq(s, i, Min(starts) - 1) \o rep \o scan[matchEnd(re, f, Min(starts))]
    IN  scan[1]

\* The same for an /i expression, which reads the text case-folded.
replaceAllIgnoringCase(re, s, rep) == replaceAll(re, s, fold(s), rep)
\* The same for an expression without flags other than /g.
replaceAllExactly(re, s, rep) == replaceAll(re, s, s, rep)

\* The three parts of htmlToText: style and script removed; closing tags
\* and list items given structure; tags stripped and white space collapsed.
withoutStyleAndScript(html) ==
    replaceAllIgnoringCase("script", replaceAllIgnoringCase("style", html, <<>>), <<>>)
withStructure(s) ==
    replaceAllIgnoringCase("li", replaceAllIgnoringCase("closingTag", s, <<"\n">>), <<"-"," ">>)
withoutTags(s) ==
    replaceAllExactly("blanks",
        replaceAllExactly("blankLines", replaceAllExactly("tag", s, <<" ">>), <<"\n", "\n">>),
        <<" ">>)
htmlToText(html) ==
    IF html = <<>> THEN <<>>
    ELSE trim(withoutTags(withStructure(withoutStyleAndScript(html))))

\* ^ under /m: the start of the text or the position after a line terminator.
atLineStart(s, i) == i = 1 \/ s[i - 1] \in LineTerminators
\* The line that starts at i, up to the next line terminator.
lineAt(s, i) == SubSeq(s, i, runEnd(s, i, DOMAIN codePoint \ LineTerminators) - 1)

\* /^On .* wrote:$/m
onWrote(line) ==
    StartsWith(line, <<"O","n"," ">>) /\ EndsWith(line, <<" ","w","r","o","t","e",":">>) /\ Len(line) >= 10
\* /^From: .*$/m
fromHeader(line) == StartsWith(line, <<"F","r","o","m",":"," ">>)
\* /^-----Original Message-----$/m
originalMessage(line) == line = <<"-","-","-","-","-","O","r","i","g","i","n","a","l"," ","M","e","s","s","a","g","e","-","-","-","-","-">>
\* /^> ?On .* wrote:$/m
quotedOnWrote(line) ==
    \/ StartsWith(line, <<">"," ","O","n"," ">>) /\ EndsWith(line, <<" ","w","r","o","t","e",":">>) /\ Len(line) >= 12
    \/ StartsWith(line, <<">","O","n"," ">>) /\ EndsWith(line, <<" ","w","r","o","t","e",":">>) /\ Len(line) >= 11

\* s.search(re) for the markers of stripQuoted, taken by number: the
\* 0-based index of the first line the marker matches, -1 when none.
quoteMarkerMatches(n, line) ==
    IF n = 1 THEN onWrote(line)
    ELSE IF n = 2 THEN fromHeader(line)
    ELSE IF n = 3 THEN originalMessage(line)
    ELSE quotedOnWrote(line)
searchQuoteMarker(s, n) ==
    LET hits == {i \in 1..Len(s) : atLineStart(s, i) /\ quoteMarkerMatches(n, lineAt(s, i))}
    IN  IF hits = {} THEN -1 ELSE Min(hits) - 1

\* The markers in the order of the list: the first that matches decides.
stripQuoted(s) ==
    LET found == {n \in 1..4 : searchQuoteMarker(s, n) # -1}
    IN  IF found = {} THEN trim(s)
        ELSE trim(slice(s, 0, searchQuoteMarker(s, Min(found))))

FooterMarkers ==
    << <<"t","h","i","s"," ","e","-","m","a","i","l"," ","a","n","d"," ","a","n","y"," ","a","t","t","a","c","h","m","e","n","t","s"," ","a","r","e"," ","c","o","n","f","i","d","e","n","t","i","a","l">>,
       <<"t","h","i","s"," ","e","m","a","i","l"," ","a","n","d"," ","a","n","y"," ","a","t","t","a","c","h","m","e","n","t","s"," ","a","r","e"," ","c","o","n","f","i","d","e","n","t","i","a","l">>,
       <<"p","l","e","a","s","e"," ","c","o","n","s","i","d","e","r"," ","t","h","e"," ","e","n","v","i","r","o","n","m","e","n","t"," ","b","e","f","o","r","e"," ","p","r","i","n","t","i","n","g"," ","t","h","i","s"," ","e","m","a","i","l">>,
       <<"t","o"," ","u","n","s","u","b","s","c","r","i","b","e">>,
       <<"u","n","s","u","b","s","c","r","i","b","e"," ","h","e","r","e">> >>
\* s.search(re) for the n-th footer marker, an /i expression.
searchFooterMarker(s, n) ==
    LET f    == fold(s)
        hits == {i \in 1..Len(s) : OccursAt(f, FooterMarkers[n], i)}
    IN  IF hits = {} THEN -1 ELSE Min(hits) - 1

stripFooters(s) ==
    LET found == {n \in 1..Len(FooterMarkers) : searchFooterMarker(s, n) # -1}
    IN  IF found = {} THEN s
        ELSE trim(slice(s, 0, searchFooterMarker(s, Min(found))))

\* opts?.maxChars ?? 6000
maxCharsOf(maxChars) == IF maxChars = None THEN DefaultMaxChars ELSE maxChars[1]

\* A guard that would append the marker and cut nothing.
truncateKeepingAll(s, MAX_CHARS) ==
    IF Len(s) <= MAX_CHARS THEN s ELSE s \o TruncationMarker
\* A guard that would also cut a text of exactly MAX_CHARS characters.
truncateStrictly(s, MAX_CHARS) ==
    IF Len(s) < MAX_CHARS THEN s
    ELSE slice(s, 0, MAX_CHARS) \o TruncationMarker
\* if (s.length <= MAX_CHARS) return s; otherwise the slice and the marker.
truncate(s, MAX_CHARS) ==
    IF Len(s) <= MAX_CHARS THEN s
    ELSE slice(s, 0, MAX_CHARS) \o TruncationMarker

\* A selection that would prefer the HTML buffer.
selectBodyHtmlFirst(text, html) ==
    IF html # <<>> THEN htmlToText(html) ELSE trim(text)
\* text.trim() || '', then the HTML converted when that is empty.
selectBody(text, html) ==
    IF trim(text) # <<>> THEN trim(text)
    ELSE IF html # <<>> THEN htmlToText(html)
    ELSE <<>>

\* The steps of makeEmailBodyLLMSafe(payload, {maxChars}), each adding its
\* local value to the ones before it: 1. extract text/html,
extracted(payload, maxChars) ==
    [text |-> extract(payload).text, html |-> extract(payload).html,
     MAX_CHARS |-> maxCharsOf(maxChars)]
\* 2. prefer text, fall back to html converted to text,
bodySelected(l) ==
    [text |-> l.text, html |-> l.html, MAX_CHARS |-> l.MAX_CHARS,
     selected |-> selectBody(l.text, l.html)]
\* 3. clean up: stripQuoted, then stripFooters,
quotedStripped(l) ==
    [text |-> l.text, html |-> l.html, MAX_CHARS |-> l.MAX_CHARS, selected |-> l.selected,
     afterStripQuoted |-> stripQuoted(l.selected)]
footersStripped(l) ==
    [text |-> l.text, html |-> l.html, MAX_CHARS |-> l.MAX_CHARS, selected |-> l.selected,
     afterStripQuoted |-> l.afterStripQuoted,
     afterStripFooters |-> stripFooters(l.afterStripQuoted)]
\* 4. the final guard: the local values and the result.
truncated(l) == [locals |-> l, result |-> truncate(l.afterStripFooters, l.MAX_CHARS)]
makeEmailBodyLLMSafe(payload, maxChars) ==
    truncated(footersStripped(quotedStripped(bodySelected(extracted(payload, maxChars)))))

(***************************************************************************)
(* Inputs                                                                  *)
(***************************************************************************)
MaxEmailLen == 5
EmailAlphabet == {"a", "@", ".", " "}
EmailStrings == SeqsUpTo(EmailAlphabet, MaxEmailLen)

\* Recipient lists: two addresses validateEmail accepts, two it rejects.
MaxTo == 2
Addresses == {<<"a","@","b",".","c">>, <<"u","@","v",".","i","o">>, <<"b","a","d","-","a","d","d","r","e","s","s">>, <<"x"," ","y","@","z",".","w">>}
ToLists == SeqsUpTo(Addresses, MaxTo)

MimeTypes ==
    {None, Some(<<>>), Some(<<"t","e","x","t","/","p","l","a","i","n">>), Some(<<"t","e","x","t","/","h","t","m","l">>),
     Some(<<"m","u","l","t","i","p","a","r","t","/","a","l","t","e","r","n","a","t","i","v","e">>), Some(<<"m","u","l","t","i","p","a","r","t","/","m","i","x","e","d">>)}
HtmlBodies == {None, Some(<<>>), Some(<<"<","p",">","h","i","<","/","p",">">>)}
Bodies == {<<>>, <<"h","e","l","l","o">>}
\* The header fields the shape of the message does not depend on.
HeaderFields ==
    {[cc |-> None, bcc |-> None, subject |-> <<"H","i">>, inReplyTo |-> None],
     [cc |-> Some(<<<<"c","@","d",".","e">>, <<"f","@","g",".","h">>>>), bcc |-> Some(<<<<"i","@","j",".","k">>>>), subject |-> <<"H","i">>,
      inReplyTo |-> Some(<<"<","m","1","@","x",">">>)],
     [cc |-> Some(<<>>), bcc |-> None, subject |-> <<"C","a","f">> \o <<EAcute>>, inReplyTo |-> Some(<<>>)]}
MessageRequests ==
    {[to |-> to, cc |-> h.cc, bcc |-> h.bcc, subject |-> h.subject, body |-> body,
      htmlBody |-> htmlBody, mimeType |-> mimeType, inReplyTo |-> h.inReplyTo] :
        to \in ToLists, h \in HeaderFields, body \in Bodies, htmlBody \in HtmlBodies,
        mimeType \in MimeTypes}
\* Attachment paths, the files that may exist, and the requests with attachments.
MaxAttachments == 2
Paths == {<<"/","t","m","p","/","a",".","p","d","f">>, <<"n","o","t","e","s","/","b",".","t","x","t">>}
AttachmentLists == SeqsUpTo(Paths, MaxAttachments)
AttachmentRequests ==
    {[to |-> to, cc |-> h.cc, bcc |-> h.bcc, subject |-> h.subject, body |-> <<"h","e","l","l","o">>,
      htmlBody |-> htmlBody, inReplyTo |-> h.inReplyTo, attachments |-> attachments] :
        to \in ToLists, h \in HeaderFields, htmlBody \in {None, Some(<<"<","p",">","h","i","<","/","p",">">>)},
        attachments \in AttachmentLists}
\* What the mail API puts in body.data: URL-safe base64 of the UTF-8 text.
gmailData(text) ==
    Some(replaceChar(replaceChar(toBase64(utf8Encode(text)), "+", "-"), "/", "_"))
PlainLeaf(text) == Part(<<"t","e","x","t","/","p","l","a","i","n">>, gmailData(text), None)
HtmlLeaf(html) == Part(<<"t","e","x","t","/","h","t","m","l">>, gmailData(html), None)

\* Plain bodies: up to MaxLines lines, among them lines each reply-chain
\* marker matches, near misses, and lines holding footer phrases.
MaxLines == 2
BodyLines ==
    {<<"H","i">>, <<>>, <<" ","B","y","e"," ">>,
     <<"O","n"," ","M","o","n",","," ","J","a","n"," ","1"," ","w","r","o","t","e",":">>, <<"F","r","o","m",":"," ","B","o","b">>, <<"-","-","-","-","-","O","r","i","g","i","n","a","l"," ","M","e","s","s","a","g","e","-","-","-","-","-">>,
     <<">"," ","O","n"," ","T","u","e"," ","w","r","o","t","e",":">>, <<">","O","n"," ","T","u","e"," ","w","r","o","t","e",":">>, <<"O","n"," ","w","r","o","t","e",":">>, <<"S","e","e"," ","F","r","o","m",":"," ","a","b","o","v","e">>,
     <<"T","h","i","s"," ","E","-","m","a","i","l"," ","a","n","d"," ","a","n","y"," ","a","t","t","a","c","h","m","e","n","t","s"," ","a","r","e"," ","c","o","n","f","i","d","e","n","t","i","a","l",".">>,
     <<"t","h","i","s"," ","e","m","a","i","l"," ","a","n","d"," ","a","n","y"," ","a","t","t","a","c","h","m","e","n","t","s"," ","a","r","e"," ","c","o","n","f","i","d","e","n","t","i","a","l">>,
     <<"P","l","e","a","s","e"," ","c","o","n","s","i","d","e","r"," ","t","h","e"," ","e","n","v","i","r","o","n","m","e","n","t"," ","b","e","f","o","r","e"," ","p","r","i","n","t","i","n","g"," ","t","h","i","s"," ","e","m","a","i","l">>,
     <<"R","e","p","l","y"," ","S","T","O","P","."," ","T","o"," ","u","n","s","u","b","s","c","r","i","b","e",","," ","w","r","i","t","e">>, <<"U","n","s","u","b","s","c","r","i","b","e"," ","h","e","r","e">>}
PlainTexts == {join(lines, <<"\n">>) : lines \in SeqsUpTo(BodyLines, MaxLines)}

\* HTML bodies: the specification's example and sequences of up to
\* MaxHtmlTokens tokens.
MaxHtmlTokens == 3
HtmlTokens ==
    {<<"<","p",">">>, <<"<","/","P",">">>, <<"H","e","l","l","o">>, <<" ">>, <<"\n">>, <<"<","l","i",">">>, <<"<","/","l","i",">">>, <<"<","b","r",">">>,
     <<"<","s","t","y","l","e",">","p","{","}","<","/","s","t","y","l","e",">">>, <<"<","S","C","R","I","P","T",">","x","<","/","s","c","r","i","p","t",">">>, <<"<",">">>, <<"a"," ",">"," ","b">>}
HtmlTexts ==
    {<<"<","p",">","H","e","l","l","o","<","/","p",">","<","p",">","W","o","r","l","d","<","/","p",">">>, <<"<","d","i","v",">","H","i","<","/","d","i","v",">","\r","\n"," ","\r","\n","<","d","i","v",">","T","o"," ","u","n","s","u","b","s","c","r","i","b","e","<","/","d","i","v",">">>}
    \cup {Flatten(tokens) : tokens \in SeqsUpTo(HtmlTokens, MaxHtmlTokens)}

\* Part trees: leaves, a container of up to MaxParts leaves, and a plain or
\* empty part beside a container that nests one more level.
MaxParts == 2
LeafTexts == {<<"H","i"," ","t","h","e","r","e">>, <<" "," ","\n">>, <<"x">>}
LeafHtmls == {<<"<","p",">","H","e","l","l","o","<","/","p",">","<","p",">","W","o","r","l","d","<","/","p",">">>, <<"<","b",">","y","<","/","b",">">>}
Leaves ==
    {PlainLeaf(t) : t \in LeafTexts} \cup {HtmlLeaf(h) : h \in LeafHtmls}
    \cup {Part(<<"t","e","x","t","/","p","l","a","i","n">>, None, None), Part(<<"t","e","x","t","/","h","t","m","l">>, Some(<<>>), None),
          Part(<<"i","m","a","g","e","/","p","n","g">>, gmailData(<<"x">>), None)}
Containers ==
    {Part(<<"m","u","l","t","i","p","a","r","t","/","a","l","t","e","r","n","a","t","i","v","e">>, None, Some(parts)) : parts \in SeqsUpTo(Leaves, MaxParts)}
NestedTrees ==
    {Part(m, IF m = <<"t","e","x","t","/","p","l","a","i","n">> THEN gmailData(<<"T","o","p"," ">>) ELSE None, Some(<<l, Part(<<"m","u","l","t","i","p","a","r","t","/","r","e","l","a","t","e","d">>, None, Some(<<c>>))>>)) :
        m \in {<<"t","e","x","t","/","p","l","a","i","n">>, <<"m","u","l","t","i","p","a","r","t","/","m","i","x","e","d">>}, l \in Leaves, c \in Containers}

MaxCharsValues == {0, 1, 8, 9}
SanitizerInputs ==
    {<<PlainLeaf(t), None>> : t \in PlainTexts}
    \cup {<<HtmlLeaf(h), None>> : h \in HtmlTexts}
    \cup {<<p, None>> : p \in {EmptyPart} \cup Leaves \cup Containers \cup NestedTrees}
    \cup {<<p, Some(n)>> :
            p \in {PlainLeaf(<<"H","i"," ","t","h","e","r","e">>), PlainLeaf(<<"H","i"," ","t","h","e","r","e","!">>), PlainLeaf(<<"H","i","\n","F","r","o","m",":"," ","B","o","b">>),
                   HtmlLeaf(<<"<","p",">","H","e","l","l","o","<","/","p",">","<","p",">","W","o","r","l","d","<","/","p",">">>), EmptyPart},
            n \in MaxCharsValues}

\* Math.random().toString(36).substring(2): '' when Math.random() gives 0.
BoundarySuffixes == {<<>>, <<"k","2","j","9","x","4">>}

(***************************************************************************)
(* The calls                                                               *)
(***************************************************************************)
NoLocals == [none |-> TRUE]

Init ==
    /\ pc = "idle"
    /\ fn = "none"
    /\ args = <<>>
    /\ ret = <<>>
    /\ err = <<>>
    /\ locals = NoLocals
    /\ boundarySuffix = <<>>
    /\ files = {}
    /\ sendMailCalls = 0

\* validateEmail(email), called on its own.
ValidateEmailCall ==
    /\ pc = "idle"
    /\ \E email \in EmailStrings :
        /\ pc' = "returned"
        /\ fn' = "validateEmail"
        /\ args' = [email |-> email]
        /\ ret' = validateEmail(email)
        /\ UNCHANGED <<err, locals, boundarySuffix, files, sendMailCalls>>

\* createEmailMessage(validatedArgs)
CreateEmailMessageCall ==
    /\ pc = "idle"
    /\ \E validatedArgs \in MessageRequests : \E suffix \in BoundarySuffixes :
        \E outcome \in {createEmailMessage(validatedArgs, suffix)} :
            /\ pc' = IF outcome.threw THEN "threw" ELSE "returned"
            /\ fn' = "createEmailMessage"
            /\ args' = validatedArgs
            /\ boundarySuffix' = suffix
            /\ ret' = outcome.value
            /\ err' = outcome.error
            /\ UNCHANGED <<locals, files, sendMailCalls>>

\* createEmailWithNodemailer(validatedArgs), to its await; existing are the
\* files on disk when it runs.
CreateEmailWithNodemailerCall ==
    /\ pc = "idle"
    /\ \E validatedArgs \in AttachmentRequests : \E existing \in SUBSET Paths :
        \E outcome \in {createEmailWithNodemailer(validatedArgs, existing)} :
            /\ pc' = IF outcome.threw THEN "threw" ELSE "awaiting"
            /\ fn' = "createEmailWithNodemailer"
            /\ args' = validatedArgs
            /\ files' = existing
            /\ err' = outcome.error
            /\ sendMailCalls' = sendMailCalls + outcome.sendMail
            /\ locals' = [mailOptions |-> outcome.mailOptions]
            /\ UNCHANGED <<ret, boundarySuffix>>

\* The promise of transporter.sendMail settles: info.message.toString() is
\* returned, or the rejection is thrown on. The rendering is the external
\* library's; the model keeps what it was given.
SendMailSettles ==
    /\ pc = "awaiting"
    /\ \E fulfilled \in BOOLEAN :
        /\ pc' = IF fulfilled THEN "returned" ELSE "threw"
        /\ ret' = IF fulfilled THEN [rawMessageOf |-> locals.mailOptions[1]] ELSE <<>>
        /\ err' = IF fulfilled THEN <<>> ELSE <<"s","e","n","d","M","a","i","l"," ","r","e","j","e","c","t","e","d">>
        /\ UNCHANGED <<fn, args, locals, boundarySuffix, files, sendMailCalls>>

\* makeEmailBodyLLMSafe(payload, opts)
MakeEmailBodyLLMSafeCall ==
    /\ pc = "idle"
    /\ \E input \in SanitizerInputs :
        \E outcome \in {makeEmailBodyLLMSafe(input[1], input[2])} :
            /\ pc' = "returned"
            /\ fn' = "makeEmailBodyLLMSafe"
            /\ args' = [payload |-> input[1], maxChars |-> input[2]]
            /\ locals' = outcome.locals
            /\ ret' = outcome.result
            /\ UNCHANGED <<err, boundarySuffix, files, sendMailCalls>>

\* The caller has taken the result of the call; the next call starts afresh.
Return ==
    /\ pc \in {"returned", "threw"}
    /\ pc' = "idle"
    /\ fn' = "none"
    /\ args' = <<>>
    /\ ret' = <<>>
    /\ err' = <<>>
    /\ locals' = NoLocals
    /\ boundarySuffix' = <<>>
    /\ files' = {}
    /\ sendMailCalls' = 0

Next ==
    \/ ValidateEmailCall
    \/ CreateEmailMessageCall
    \/ CreateEmailWithNodemailerCall
    \/ SendMailSettles
    \/ MakeEmailBodyLLMSafeCall
    \/ Return

Spec == Init /\ [][Next]_vars

(***************************************************************************)
(* Properties                                                              *)
(***************************************************************************)
inCall(name) == fn = name /\ pc # "idle"
returnedFrom(name) == fn = name /\ pc = "returned"

\* The lines of a message: the text between its CRLFs.
crlfs(msg) == {i \in 1..(Len(msg) - 1) : msg[i] = "\r" /\ msg[i + 1] = "\n"}
nthOf(P, n) == CHOOSE p \in P : Cardinality({q \in P : q < p}) = n - 1
linesOf(msg) ==
    LET P == crlfs(msg)
        n == Cardinality(P)
    IN  AsSeq([k \in 1..(n + 1) |->
            SubSeq(msg, IF k = 1 THEN 1 ELSE nthOf(P, k - 1) + 2,
                        IF k = n + 1 THEN Len(msg) ELSE nthOf(P, k) - 1)])
\* The index of the blank line that ends the header block.
headerEnd(L) == Min({i \in 1..Len(L) : L[i] = <<>>})
contentType(type) == <<"C","o","n","t","e","n","t","-","T","y","p","e",":"," ">> \o type \o <<";"," ","c","h","a","r","s","e","t","=","U","T","F","-","8">>
sevenBit == <<"C","o","n","t","e","n","t","-","T","r","a","n","s","f","e","r","-","E","n","c","o","d","i","n","g",":"," ","7","b","i","t">>
contentTypeLines(L) == {i \in 1..Len(L) : StartsWith(L[i], <<"C","o","n","t","e","n","t","-","T","y","p","e",":">>)}

\* The message whose lines are L is a single part of the given type
\* carrying content.
isSinglePart(L, type, content) ==
    LET h == headerEnd(L)
    IN  /\ Len(L) = h + 1
        /\ L[h + 1] = content
        /\ L[h - 2] = contentType(type)
        /\ L[h - 1] = sevenBit
        /\ contentTypeLines(L) = {h - 2}
\* The message whose lines are L is multipart/alternative with exactly two
\* parts delimited by the boundary: text/plain carrying plain, then
\* text/html carrying html.
isMultipartAlternative(L, boundary, plain, html) ==
    LET h == headerEnd(L)
    IN  /\ L[h - 1] = <<"C","o","n","t","e","n","t","-","T","y","p","e",":"," ","m","u","l","t","i","p","a","r","t","/","a","l","t","e","r","n","a","t","i","v","e",";"," ","b","o","u","n","d","a","r","y","=","\"">> \o boundary \o <<"\"">>
        /\ SubSeq(L, h + 1, Len(L)) =
               << <<"-","-">> \o boundary, contentType(<<"t","e","x","t","/","p","l","a","i","n">>), sevenBit, <<>>, plain, <<>>,
                  <<"-","-">> \o boundary, contentType(<<"t","e","x","t","/","h","t","m","l">>), sevenBit, <<>>, html, <<>>,
                  <<"-","-">> \o boundary \o <<"-","-">> >>
        /\ Cardinality({i \in 1..Len(L) : L[i] = <<"-","-">> \o boundary}) = 2

\* C1: createEmailMessage returns multipart/alternative (text/plain with
\* body, then text/html with htmlBody) whenever htmlBody is non-empty and
\* mimeType is not an explicit 'text/plain', an absent mimeType included; a
\* single text/html part with body when mimeType is 'text/html' and htmlBody
\* is absent; a single text/plain part with body in every other case.
C1_ShapeFollowsContent ==
    returnedFrom("createEmailMessage") =>
        LET L == linesOf(ret)
        IN  IF truthyString(args.htmlBody) /\ args.mimeType # Some(<<"t","e","x","t","/","p","l","a","i","n">>)
            THEN isMultipartAlternative(L, boundaryOf(boundarySuffix), args.body,
                                        args.htmlBody[1])
            ELSE IF args.mimeType = Some(<<"t","e","x","t","/","h","t","m","l">>)
            THEN isSinglePart(L, <<"t","e","x","t","/","h","t","m","l">>, args.body)
            ELSE isSinglePart(L, <<"t","e","x","t","/","p","l","a","i","n">>, args.body)

\* The positions of s at which a line starts that some reply-chain marker
\* matches, and whether s holds such a line.
quotedLineStarts(s) ==
    {i \in 1..Len(s) :
        atLineStart(s, i) /\ \E n \in 1..4 : quoteMarkerMatches(n, lineAt(s, i))}

\* C2: stripQuoted cuts the body immediately before the matching line at the
\* earliest position, all four patterns taken together, and trims the
\* rest (the whole text trimmed when no line matches); no line matching a
\* pattern survives.
C2_CutBeforeEarliestQuotedLine ==
    returnedFrom("makeEmailBodyLLMSafe") =>
        LET s == locals.selected
            starts == quotedLineStarts(s)
        IN  /\ locals.afterStripQuoted =
                   IF starts = {} THEN trim(s) ELSE trim(SubSeq(s, 1, Min(starts) - 1))
            /\ quotedLineStarts(locals.afterStripQuoted) = {}

\* The positions of s at which some footer-marker phrase occurs, case
\* ignored.
footerStarts(s) ==
    {i \in 1..Len(s) : \E n \in 1..Len(FooterMarkers) : OccursAt(fold(s), FooterMarkers[n], i)}

\* C3: stripFooters cuts the body at the earliest occurrence of any of the
\* five footer-marker phrases, so that none remains; when none occurs the
\* text is unchanged.
C3_CutAtEarliestFooter ==
    returnedFrom("makeEmailBodyLLMSafe") =>
        LET s == locals.afterStripQuoted
            starts == footerStarts(s)
        IN  IF starts = {} THEN locals.afterStripFooters = s
            ELSE /\ locals.afterStripFooters = trim(SubSeq(s, 1, Min(starts) - 1))
                 /\ footerStarts(locals.afterStripFooters) = {}

\* The indices of the to addresses validateEmail rejects.
rejected(to) == {i \in 1..Len(to) : ~validateEmail(to[i])}

\* C4: in both composers a to list with a rejected address makes the call
\* fail with the error that names the first rejected address, and no message
\* is returned; when every to address passes, createEmailMessage returns a
\* message string.
C4_FirstInvalidRecipientReported ==
    /\ inCall("createEmailMessage") \/ inCall("createEmailWithNodemailer") =>
           (rejected(args.to) # {} =>
                /\ pc = "threw"
                /\ err = InvalidRecipient \o args.to[Min(rejected(args.to))]
                /\ ret = <<>>)
    /\ inCall("createEmailMessage") /\ rejected(args.to) = {} =>
           /\ pc = "returned"
           /\ err = <<>>
           /\ StartsWith(ret, <<"F","r","o","m",":"," ","m","e">>)
C4_Witness ==
    /\ inCall("createEmailMessage")
    /\ pc = "threw"
    /\ Cardinality({args.to[i] : i \in rejected(args.to)}) >= 2

\* C5 as stated: the returned string is never longer than maxChars.
C5_WithinMaxChars ==
    returnedFrom("makeEmailBodyLLMSafe") => Len(ret) <= locals.MAX_CHARS
\* C5 as amended: the returned string is at most maxChars characters plus
\* the truncation marker: maxChars plus the marker's 23 when the cleaned
\* text is longer than maxChars, at most maxChars otherwise.
C5_WithinMaxCharsPlusMarker ==
    returnedFrom("makeEmailBodyLLMSafe") =>
        /\ Len(ret) <= locals.MAX_CHARS + Len(TruncationMarker)
        /\ Len(locals.afterStripFooters) <= locals.MAX_CHARS => Len(ret) <= locals.MAX_CHARS
        /\ Len(locals.afterStripFooters) > locals.MAX_CHARS =>
               Len(ret) = locals.MAX_CHARS + 23
C5_Witness ==
    /\ returnedFrom("makeEmailBodyLLMSafe")
    /\ Len(ret) > locals.MAX_CHARS
    /\ locals.MAX_CHARS > 0

count(s, c) == Cardinality({i \in 1..Len(s) : s[i] = c})
localPart(e) == SubSeq(e, 1, Min({i \in 1..Len(e) : e[i] = "@"}) - 1)
domainPart(e) == SubSeq(e, Min({i \in 1..Len(e) : e[i] = "@"}) + 1, Len(e))
\* local-part@domain: one "@", both sides non-empty, no white space.
hasAddressShape(e) ==
    /\ count(e, "@") = 1
    /\ localPart(e) # <<>>
    /\ domainPart(e) # <<>>
    /\ \A i \in 1..Len(e) : e[i] \notin WhiteSpace

\* C6 as stated: validateEmail(e) is true iff e is local-part@domain with
\* exactly one "@", no white space, and a "." somewhere in the domain.
C6_DotAnywhereInDomain ==
    returnedFrom("validateEmail") =>
        ret = (hasAddressShape(args.email) /\ count(domainPart(args.email), ".") >= 1)
\* C6 as amended: ... and a "." in the domain that is neither its first nor
\* its last character.
C6_DotInsideDomain ==
    returnedFrom("validateEmail") =>
        ret = (/\ hasAddressShape(args.email)
               /\ \E k \in 2..(Len(domainPart(args.email)) - 1) :
                      domainPart(args.email)[k] = ".")
C6_Witness ==
    /\ returnedFrom("validateEmail")
    /\ ret = FALSE
    /\ hasAddressShape(args.email)
    /\ count(domainPart(args.email), ".") >= 1

\* C7: a payload that is one text/html part with <p>Hello</p><p>World</p>
\* comes out as Hello, one blank line, World.
C7_ParagraphsSeparatedByBlankLine ==
    /\ returnedFrom("makeEmailBodyLLMSafe")
    /\ args.payload = HtmlLeaf(<<"<","p",">","H","e","l","l","o","<","/","p",">","<","p",">","W","o","r","l","d","<","/","p",">">>)
    /\ args.maxChars = None
    => ret = <<"H","e","l","l","o","\n","\n","W","o","r","l","d">>

\* The parts of a tree in document order, depth first.
RECURSIVE partsInOrder(_)
partsInOrder(part) ==
    <<part>> \o
    (IF part.parts = None THEN <<>>
     ELSE Flatten(AsSeq([i \in 1..Len(part.parts[1]) |-> partsInOrder(part.parts[1][i])])))
\* The decoded text/plain payloads of a tree, concatenated in that order.
plainTextOf(payload) ==
    LET ps == SelectSeq(partsInOrder(payload), LAMBDA q : q.mimeType = <<"t","e","x","t","/","p","l","a","i","n">>)
    IN  Flatten(AsSeq([i \in 1..Len(ps) |-> decodeBody(ps[i].data)]))
\* The tree with the payload of every text/html part taken away.
RECURSIVE withoutHtml(_)
withoutHtml(part) ==
    Part(part.mimeType,
         IF part.mimeType = <<"t","e","x","t","/","h","t","m","l">> THEN None ELSE part.data,
         IF part.parts = None THEN None
         ELSE Some(AsSeq([i \in 1..Len(part.parts[1]) |-> withoutHtml(part.parts[1][i])])))
\* The specification's example: a text/plain leaf beside a text/html leaf
\* nested under a multipart container.
PlainBesideNestedHtml ==
    Part(<<"m","u","l","t","i","p","a","r","t","/","m","i","x","e","d">>, None,
         Some(<<PlainLeaf(<<"H","i"," ","t","h","e","r","e">>),
                Part(<<"m","u","l","t","i","p","a","r","t","/","r","e","l","a","t","e","d">>, None,
                     Some(<<Part(<<"m","u","l","t","i","p","a","r","t","/","a","l","t","e","r","n","a","t","i","v","e">>, None,
                                 Some(<<HtmlLeaf(<<"<","p",">","H","e","l","l","o","<","/","p",">","<","p",">","W","o","r","l","d","<","/","p",">">>)>>))>>))>>))

\* C8: when the text/plain payloads of the tree, concatenated in document
\* order, are not blank, the result is computed from that text trimmed and
\* is what the tree without its text/html payloads gives; only when they
\* are blank is it computed from the HTML converted to text.
C8_PlainTextPreferred ==
    returnedFrom("makeEmailBodyLLMSafe") =>
        /\ locals.text = plainTextOf(args.payload)
        /\ IF trim(locals.text) # <<>>
           THEN /\ locals.selected = trim(locals.text)
                /\ ret = makeEmailBodyLLMSafe(withoutHtml(args.payload), args.maxChars).result
           ELSE locals.selected = htmlToText(locals.html)
        /\ args.payload = PlainBesideNestedHtml /\ args.maxChars = None => ret = <<"H","i"," ","t","h","e","r","e">>
C8_Witness ==
    /\ returnedFrom("makeEmailBodyLLMSafe")
    /\ args.payload = PlainBesideNestedHtml
    /\ locals.html # <<>>
    /\ ret = <<"H","i"," ","t","h","e","r","e">>

\* The indices of the attachment paths that are not on disk.
missingFiles(attachments) == {j \in 1..Len(attachments) : attachments[j] \notin files}

\* C9: createEmailWithNodemailer invokes transporter.sendMail at most once
\* and only when every to address has passed and every attachment path
\* exists; otherwise the call fails without sendMail invoked, naming the
\* first rejected address, or, when none is rejected, the first missing path.
C9_SendMailOnlyAfterValidation ==
    inCall("createEmailWithNodemailer") =>
        LET bad     == rejected(args.to)
            missing == missingFiles(args.attachments)
        IN  /\ sendMailCalls <= 1
            /\ sendMailCalls = 1 => bad = {} /\ missing = {}
            /\ bad # {} \/ missing # {} => pc = "threw" /\ sendMailCalls = 0
            /\ bad # {} => err = InvalidRecipient \o args.to[Min(bad)]
            /\ bad = {} /\ missing # {} =>
                   err = FileDoesNotExist \o args.attachments[Min(missing)]
            /\ pc \in {"awaiting", "returned"} => sendMailCalls = 1
C9_Witness ==
    /\ inCall("createEmailWithNodemailer")
    /\ rejected(args.to) # {}
    /\ missingFiles(args.attachments) # {}
    /\ pc = "threw"
    /\ sendMailCalls = 0

\* C10: the result is the text left by quote and footer stripping, cut to
\* its first maxChars characters (6000 when no maxChars is given) and
\* followed by the truncation marker when it is longer than maxChars, and
\* unchanged when it is not.
C10_TruncatedLast ==
    returnedFrom("makeEmailBodyLLMSafe") =>
        LET cleaned == locals.afterStripFooters
            max     == IF args.maxChars = None THEN 6000 ELSE args.maxChars[1]
        IN  /\ cleaned = stripFooters(stripQuoted(locals.selected))
            /\ IF Len(cleaned) > max
               THEN /\ SubSeq(ret, 1, max) = SubSeq(cleaned, 1, max)
                    /\ SubSeq(ret, max + 1, Len(ret)) = <<"\n","\n","[","t","r","u","n","c","a","t","e","d"," ","f","o","r"," ","m","o","d","e","l","]">>
               ELSE ret = cleaned
C10_Witness ==
    /\ returnedFrom("makeEmailBodyLLMSafe")
    /\ Len(locals.afterStripFooters) = locals.MAX_CHARS
    /\ locals.MAX_CHARS > 0
    /\ ret = locals.afterStripFooters
====
